---- MODULE Spec2Model ----
(***************************************************************************)
(* Model of scripts/convert.py: the STL/3MF -> STEP conversion job.        *)
(*                                                                         *)
(* The geometry kernel (FreeCAD Mesh / Part / Import) is an external       *)
(* collaborator.  Each kernel call either returns or raises; what it       *)
(* returns follows from the traits of the mesh it acts on (how many        *)
(* duplicate points it holds, whether its self-intersections can be        *)
(* fixed, ...), and whether it raises is a free choice, limited per run    *)
(* by MaxFaults.  Every kernel call is logged in `calls`, every write to   *)
(* the process's real standard output in `stdout`.                         *)
(***************************************************************************)
EXTENDS Integers, Sequences, FiniteSets, TLC

VARIABLES
    pc,               \* position of the process in the script
    stdout,           \* what was written to the real standard output, in order
    emitted,          \* the result documents printed as JSON, in order
    exit_code,        \* -1 while running, else the process's exit status
    args,             \* the parsed command line: convert()'s parameters
    result,           \* convert()'s result dict (key -> value)
    meshes,           \* list of loaded meshes; repaired in place
    total_facets,     \* sum of the facet counts at load time
    skip_expensive,   \* total_facets > 50000
    idx,              \* loop index of the running for-loop
    all_repairs,      \* aggregated repair log
    solids,           \* shapes classified solid, in loop order
    shapes,           \* shapes kept as shells, in loop order
    final,            \* the assembled final entity
    output_file,      \* size in bytes of the file at output_path, -1 if none
    argv,             \* sys.argv
    input_exists,     \* os.path.exists(input_path)
    temp_dir,         \* the extraction directory: "none", "exists", "removed"
    xml,              \* the run of parse_3mf_model_xml on one document
    calls,            \* history: the kernel calls made, in order
    merges,           \* history: the invocations of merge_planar_faces
    faults            \* history: how many kernel calls raised so far

vars == << pc, stdout, emitted, exit_code, args, result, meshes, total_facets,
           skip_expensive, idx, all_repairs, solids, shapes, final, output_file,
           argv, input_exists, temp_dir, xml, calls, merges, faults >>

(***************************************************************************)
(* Bounds of the model.                                                    *)
(***************************************************************************)
\* Largest number of meshes one input file yields.
MaxMeshes == 2
\* Largest number of kernel calls that raise in one run.
MaxFaults == 3

(***************************************************************************)
(* Program constants.                                                      *)
(***************************************************************************)
ExpensiveCheckFacetThreshold == 50000
MergeFacetLimit == 100000
ShapeToleranceFactor == 5
MergeToleranceFactor == 10
\* The default tolerance 0.01, counted in hundredths.
DefaultTolerance == 1
\* Target of a kernel call that acts on the final entity, not on mesh i.
NoMesh == 0 - 1

(***************************************************************************)
(* Inputs.  A mesh is described by its counts and by the traits that       *)
(* decide what the kernel's repair primitives do to it.                    *)
(*   si, nm: "none" no defect; "fixable" the fix removes it;               *)
(*           "stubborn" the fix returns but the defect stays.              *)
(***************************************************************************)
Mesh(points, facets, dupPts, dupFacets, si, nm, holes, solid) ==
    [ points |-> points, facets |-> facets, dupPts |-> dupPts,
      dupFacets |-> dupFacets, si |-> si, nm |-> nm, holes |-> holes,
      solid |-> solid ]

EmptyMesh == Mesh(0, 0, 0, 0, "none", "none", 0, FALSE)

MeshSamples ==
    { EmptyMesh,
      Mesh(12500, 25000, 0, 0, "none", "none", 0, TRUE),
      Mesh(12502, 25001, 1, 1, "fixable", "stubborn", 0, FALSE),
      Mesh(8, 12, 0, 0, "stubborn", "fixable", 1, FALSE),
      Mesh(50002, 100001, 0, 1, "stubborn", "none", 0, TRUE),
      Mesh(50000, 100000, 0, 0, "none", "fixable", 1, TRUE) }

Formats == { "stl", "3mf" }

\* Sequences over S of length lo..hi.
SeqsOf(S, lo, hi) == UNION { [1..n -> S] : n \in lo..hi }

RECURSIVE SumFacets(_)
SumFacets(ms) ==
    IF ms = << >> THEN 0 ELSE Head(ms).facets + SumFacets(Tail(ms))

(***************************************************************************)
(* debug_print: the text goes to ORIGINAL_STDOUT_FD, the duplicate of file *)
(* descriptor 1 taken before the redirection: the process's real standard  *)
(* output.  `stdout` lists the kinds of text written, in order, a run of   *)
(* consecutive debug lines being one "DEBUG" entry.                        *)
(***************************************************************************)
debug_print(out) ==
    IF out /= << >> /\ out[Len(out)] = "DEBUG" THEN out ELSE Append(out, "DEBUG")

(***************************************************************************)
(* The run of one function body is threaded through a context:             *)
(*   mesh     the mesh acted on         i      its index in the job        *)
(*   repairs  repair_mesh's log         info   get_mesh_info's record      *)
(*   shape    the shape acted on        ok     merge_planar_faces' flag    *)
(*   calls, merges, out, faults   the histories, as in the variables       *)
(*   exc      an exception is propagating                                  *)
(* A body maps a context to the SET of contexts it can end in.             *)
(***************************************************************************)
Ctx(mesh, i, shape, cs, mg, out, f) ==
    [ mesh |-> mesh, i |-> i, repairs |-> << >>, info |-> << >>,
      shape |-> shape, ok |-> FALSE,
      calls |-> cs, merges |-> mg, out |-> out, faults |-> f, exc |-> FALSE ]

Dbg(c) == [ c EXCEPT !.out = debug_print(@) ]

\* One entry of `calls`: the function `by` called the kernel's `op` on mesh
\* (or on the shape of mesh) `on`; it raised, or returned `ret` ("none" where
\* the caller reads no value).
Call(by, op, on, raised, ret) ==
    [ by |-> by, op |-> op, on |-> on, raised |-> raised, ret |-> ret ]

Called(c, by, op, raised) == Append(c.calls, Call(by, op, c.i, raised, "none"))

\* A kernel call on the mesh: it returns, leaving the mesh as `after`, or it
\* raises and leaves the mesh alone.
KernelCall(c, by, op, after) ==
    { [ c EXCEPT !.calls = Called(c, by, op, FALSE), !.mesh = after ] }
    \cup
    IF c.faults < MaxFaults
    THEN { [ c EXCEPT !.calls = Called(c, by, op, TRUE), !.faults = @ + 1,
                      !.exc = TRUE ] }
    ELSE { }

\* A predicate of the kernel (isSolid, hasNonManifolds, hasSelfIntersections):
\* it returns `answer` and leaves the mesh alone, or it raises.
Answer(answer) == IF answer THEN "true" ELSE "false"

KernelPredicate(c, by, op, answer) ==
    { [ c EXCEPT !.calls = Append(@, Call(by, op, c.i, FALSE, Answer(answer))) ] }
    \cup
    IF c.faults < MaxFaults
    THEN { [ c EXCEPT !.calls = Called(c, by, op, TRUE), !.faults = @ + 1,
                      !.exc = TRUE ] }
    ELSE { }

\* Sequencing: the statements F run on every context that did not raise.
Then(S, F(_)) == UNION { IF c.exc THEN { c } ELSE F(c) : c \in S }

\* try: S  (then Ok on return)  except: Handler
Try(S, Ok(_), Handler(_)) ==
    UNION { IF c.exc THEN Handler([ c EXCEPT !.exc = FALSE ]) ELSE Ok(c) : c \in S }

Pass(c) == { c }

LogRepair(c, text, n) ==
    [ c EXCEPT !.repairs = Append(@, [ text |-> text, n |-> n ]) ]

(***************************************************************************)
(* get_mesh_info                                                           *)
(***************************************************************************)
\* CountEdges, Volume and Area are measurements of the kernel that no decision
\* of the script reads: their values are kept symbolic.
BasicInfo(m) ==
    ("points" :> m.points) @@ ("facets" :> m.facets) @@ ("edges" :> "CountEdges")

SolidInfo(m) ==
    ("is_solid" :> m.solid) @@ ("volume" :> (IF m.solid THEN "Volume" ELSE "None"))
    @@ ("area" :> "Area")

get_mesh_info(c0, skip) ==
    LET c1 == [ Dbg(c0) EXCEPT !.info = BasicInfo(c0.mesh) ]
        Solid(c) == { [ r EXCEPT !.info = @ @@ (IF r.exc THEN << >> ELSE SolidInfo(r.mesh)) ]
                      : r \in KernelPredicate(c, "get_mesh_info", "isSolid", c.mesh.solid) }
        NonManifolds(c) ==
            { [ r EXCEPT !.info = @ @@ (IF r.exc THEN << >>
                                         ELSE "has_non_manifolds" :> (r.mesh.nm /= "none")) ]
              : r \in KernelPredicate(Dbg(c), "get_mesh_info", "hasNonManifolds",
                                     c.mesh.nm /= "none") }
        SelfIntersections(c) ==
            { [ r EXCEPT !.info = @ @@ (IF r.exc THEN << >>
                                         ELSE "has_self_intersections" :> (r.mesh.si /= "none")) ]
              : r \in KernelPredicate(Dbg(c), "get_mesh_info", "hasSelfIntersections",
                                     c.mesh.si /= "none") }
        Expensive(c) ==
            IF ~skip
            THEN Then(NonManifolds(c), SelfIntersections)
            ELSE { Dbg(c) }
    IN  Then(Solid(c1), Expensive)

(***************************************************************************)
(* repair_mesh, step by step.                                              *)
(***************************************************************************)
RemoveDuplicatedPoints(c) ==
    LET before_pts == c.mesh.points
        after == [ c.mesh EXCEPT !.points = @ - c.mesh.dupPts, !.dupPts = 0 ]
    IN  { IF ~r.exc /\ r.mesh.points < before_pts
          THEN LogRepair(r, "Removed duplicate points", before_pts - r.mesh.points)
          ELSE r
          : r \in KernelCall(c, "repair_mesh", "removeDuplicatedPoints", after) }

RemoveDuplicatedFacets(c) ==
    LET before_f == c.mesh.facets
        after == [ c.mesh EXCEPT !.facets = @ - c.mesh.dupFacets, !.dupFacets = 0 ]
    IN  { IF ~r.exc /\ r.mesh.facets < before_f
          THEN LogRepair(r, "Removed duplicate facets", before_f - r.mesh.facets)
          ELSE r
          : r \in KernelCall(c, "repair_mesh", "removeDuplicatedFacets", after) }

\* Faulty variant, for comparison: the fix is logged without the re-check.
FixSelfIntersections_unchecked(c, skip) ==
    LET fixed == [ c.mesh EXCEPT !.si = IF @ = "fixable" THEN "none" ELSE @ ]
        Logged(r) == { LogRepair(r, "Fixed self-intersections", 0) }
        Fix(r) ==
            IF r.mesh.si /= "none"
            THEN Then(KernelCall(Dbg(r), "repair_mesh", "fixSelfIntersections", fixed), Logged)
            ELSE { r }
    IN  IF ~skip
        THEN Then(KernelPredicate(Dbg(c), "repair_mesh", "hasSelfIntersections",
                                  c.mesh.si /= "none"), Fix)
        ELSE { Dbg(c) }

FixSelfIntersections(c, skip) ==
    LET fixed == [ c.mesh EXCEPT !.si = IF @ = "fixable" THEN "none" ELSE @ ]
        Recheck(r) ==
            { IF ~q.exc /\ q.mesh.si = "none"
              THEN LogRepair(q, "Fixed self-intersections", 0)
              ELSE q
              : q \in KernelPredicate(r, "repair_mesh", "hasSelfIntersections",
                                     r.mesh.si /= "none") }
        Fix(r) ==
            IF r.mesh.si /= "none"
            THEN Then(KernelCall(Dbg(r), "repair_mesh", "fixSelfIntersections", fixed), Recheck)
            ELSE { r }
    IN  IF ~skip
        THEN Then(KernelPredicate(Dbg(c), "repair_mesh", "hasSelfIntersections",
                                  c.mesh.si /= "none"), Fix)
        ELSE { Dbg(c) }

FixDegenerations(c) ==
    LET Logged(r) == { LogRepair(r, "Fixed degenerations", 0) }
        Fallback(r) == Try(KernelCall(r, "repair_mesh", "fixDegenerations()", r.mesh), Logged, Pass)
    IN  Try(KernelCall(Dbg(c), "repair_mesh", "fixDegenerations(0.0)", c.mesh), Logged, Fallback)

RemoveNonManifolds(c, skip) ==
    LET removed == [ c.mesh EXCEPT !.nm = IF @ = "fixable" THEN "none" ELSE @ ]
        Recheck(r) ==
            { IF ~q.exc /\ q.mesh.nm = "none"
              THEN LogRepair(q, "Removed non-manifolds", 0)
              ELSE q
              : q \in KernelPredicate(r, "repair_mesh", "hasNonManifolds",
                                     r.mesh.nm /= "none") }
        Remove(r) ==
            IF r.mesh.nm /= "none"
            THEN Try(Then(KernelCall(r, "repair_mesh", "removeNonManifolds", removed), Recheck), Pass, Pass)
            ELSE { r }
    IN  IF ~skip
        THEN Then(KernelPredicate(Dbg(c), "repair_mesh", "hasNonManifolds",
                                  c.mesh.nm /= "none"), Remove)
        ELSE { Dbg(c) }

\* Faulty variant, for comparison: the unbounded variant is never tried.
FillupHoles_bounded_only(c) ==
    LET filled == [ c.mesh EXCEPT !.facets = @ + c.mesh.holes, !.holes = 0 ]
        Logged(r) == { LogRepair(r, "Filled holes", 0) }
    IN  Try(KernelCall(Dbg(c), "repair_mesh", "fillupHoles(1000)", filled), Logged, Pass)

FillupHoles(c) ==
    LET filled == [ c.mesh EXCEPT !.facets = @ + c.mesh.holes, !.holes = 0 ]
        Logged(r) == { LogRepair(r, "Filled holes", 0) }
        Fallback(r) == Try(KernelCall(r, "repair_mesh", "fillupHoles()", filled), Logged, Pass)
    IN  Try(KernelCall(Dbg(c), "repair_mesh", "fillupHoles(1000)", filled), Logged, Fallback)

\* Faulty variant, for comparison: the harmonization is not logged.
HarmonizeNormals_unlogged(c) ==
    { IF r.exc THEN r ELSE Dbg(r)
      : r \in KernelCall(Dbg(c), "repair_mesh", "harmonizeNormals", c.mesh) }

HarmonizeNormals(c) ==
    { IF r.exc THEN r ELSE Dbg(LogRepair(r, "Harmonized normals", 0))
      : r \in KernelCall(Dbg(c), "repair_mesh", "harmonizeNormals", c.mesh) }

repair_mesh(c0, skip) ==
    LET s0 == { [ Dbg(c0) EXCEPT !.repairs = << >> ] }
        s1 == Then(s0, RemoveDuplicatedPoints)
        s2 == Then(s1, RemoveDuplicatedFacets)
        s3 == Then(s2, LAMBDA c : FixSelfIntersections(c, skip))
        s4 == Then(s3, FixDegenerations)
        s5 == Then(s4, LAMBDA c : RemoveNonManifolds(c, skip))
        s6 == Then(s5, FillupHoles)
    IN  Then(s6, HarmonizeNormals)

(***************************************************************************)
(* Shapes.  A shape is the list of the kernel operations that built it,    *)
(* oldest first; a compound lists its parts, each behind its length.       *)
(***************************************************************************)
Tok(op, arg) == [ op |-> op, arg |-> arg ]

\* Part.Shape().makeShapeFromMesh(mesh.Topology, shape_tolerance) of mesh i
MeshShape(i, shape_tolerance) == << Tok("mesh", i), Tok("makeShapeFromMesh", shape_tolerance) >>

\* Part.makeSolid(shape)
MakeSolid(shape) == Append(shape, Tok("makeSolid", 0))

\* shape.refine()
Refine(shape) == Append(shape, Tok("refine", 0))

\* shape.removeSplitter(tolerance)
RemoveSplitterTol(shape, tolerance) == Append(shape, Tok("removeSplitter(tolerance)", tolerance))

\* shape.removeSplitter()
RemoveSplitter(shape) == Append(shape, Tok("removeSplitter()", 0))

RECURSIVE Parts(_)
Parts(objects) ==
    IF objects = << >> THEN << >>
    ELSE << Tok("part", Len(Head(objects))) >> \o Head(objects) \o Parts(Tail(objects))

\* Part.makeCompound(objects)
MakeCompound(objects) == << Tok("compound", Len(objects)) >> \o Parts(objects)

\* A kernel call that yields a shape: it returns `made`, or it raises.
ShapeCall(c, by, op, made) ==
    { [ c EXCEPT !.calls = Called(c, by, op, FALSE), !.shape = made ] }
    \cup
    IF c.faults < MaxFaults
    THEN { [ c EXCEPT !.calls = Called(c, by, op, TRUE), !.faults = @ + 1,
                      !.exc = TRUE ] }
    ELSE { }

(***************************************************************************)
(* merge_planar_faces: returns (c.shape, c.ok); never raises.              *)
(***************************************************************************)
MergeReturn(c, shape, ok) == { [ Dbg(c) EXCEPT !.shape = shape, !.ok = ok ] }

\* lines 164-172: removeSplitter() without tolerance, else the original shape.
MergeTier3(c, shape) ==
    Try(ShapeCall(Dbg(c), "merge_planar_faces", "shape.removeSplitter()",
                  RemoveSplitter(shape)),
        LAMBDA r : MergeReturn(r, r.shape, TRUE),
        LAMBDA r : MergeReturn(r, shape, FALSE))

\* Faulty variant, for comparison: the tier without refinement is left out.
MergeTier2_left_out(c, shape, tolerance) == MergeTier3(c, shape)

\* lines 157-163: removeSplitter(tolerance) on the shape as given.
MergeTier2(c, shape, tolerance) ==
    Try(ShapeCall(Dbg(c), "merge_planar_faces", "shape.removeSplitter(tolerance)",
                  RemoveSplitterTol(shape, tolerance)),
        LAMBDA r : MergeReturn(r, r.shape, TRUE),
        LAMBDA r : MergeTier3(r, shape))

\* lines 148-155: refine, then removeSplitter(tolerance) on the refined shape.
MergeTier1(c, shape, tolerance) ==
    Try(Then(ShapeCall(Dbg(c), "merge_planar_faces", "shape.refine()", Refine(shape)),
             LAMBDA r : ShapeCall(Dbg(r), "merge_planar_faces",
                                  "refined.removeSplitter(tolerance)",
                                  RemoveSplitterTol(r.shape, tolerance))),
        LAMBDA r : MergeReturn(r, r.shape, TRUE),
        LAMBDA r : MergeTier2(r, shape, tolerance))

merge_planar_faces(c0, tolerance) == MergeTier1(Dbg(c0), c0.shape, tolerance)

\* A call of merge_planar_faces(c.shape, tolerance), entered in `merges` with
\* what it was given, what it returned and the span of its kernel calls.
Merge(c, tolerance) ==
    { [ m EXCEPT !.merges = Append(@, [ on |-> c.i, input |-> c.shape,
                                        tolerance |-> tolerance,
                                        output |-> m.shape, ok |-> m.ok,
                                        first |-> Len(c.calls) + 1,
                                        last |-> Len(m.calls) ]) ]
      : m \in merge_planar_faces(c, tolerance) }

(***************************************************************************)
(* The 3MF model document (3D/3dmodel.model) and parse_3mf_model_xml.      *)
(*                                                                         *)
(* An <object> element is described by what the parser reads of it:        *)
(*   id         its id attribute (unique within a document)                *)
(*   component  it has a <components> child holding a <component>          *)
(*   ref        the objectid of that component                             *)
(*   mesh       it has a <mesh> child                                      *)
(*   numeric    every coordinate and index of the mesh parses as a number  *)
(*   vertices   the number of <vertex> elements (coordinates are not read  *)
(*              by any decision of the script)                             *)
(*   triangles  the <triangle> elements, as triples of vertex indices      *)
(***************************************************************************)
Object(id, component, ref, mesh, numeric, vertices, triangles) ==
    [ id |-> id, component |-> component, ref |-> ref, mesh |-> mesh,
      numeric |-> numeric, vertices |-> vertices, triangles |-> triangles ]

\* A model file: well-formed XML or not, its objects in document order, its
\* <build> section if any with the objectids of its items.
Document(wellformed, objects, build, items) ==
    [ wellformed |-> wellformed, objects |-> objects, build |-> build,
      items |-> items ]

\* The ids the objects of a document carry, in document order, and an id no
\* object carries.
ObjectIds == << "1", "2", "3" >>

MissingId == "9"

RefIds == { ObjectIds[n] : n \in 1..Len(ObjectIds) } \cup { MissingId }

\* Largest number of items in a build section.
MaxItems == 2

\* The mesh data of the n-th object: each object has its own vertex count.
MeshObject(n) == Object(ObjectIds[n], FALSE, "", TRUE, TRUE, n + 2, << << 0, 1, 2 >> >>)

\* What the n-th object of a document can be.
ObjectShapes(n) ==
    { Object(ObjectIds[n], TRUE, ref, FALSE, TRUE, 0, << >>) : ref \in RefIds }
    \cup
    { Object(ObjectIds[n], TRUE, ObjectIds[1], TRUE, TRUE, n + 2, << << 0, 1, 2 >> >>),
      Object(ObjectIds[n], FALSE, "", FALSE, TRUE, 0, << >>),
      MeshObject(n),
      Object(ObjectIds[n], FALSE, "", TRUE, TRUE, n + 2, << >>),
      Object(ObjectIds[n], FALSE, "", TRUE, FALSE, n + 2, << << 0, 1, 2 >> >>) }

ObjectLists ==
    UNION { { objs \in [1..n -> UNION { ObjectShapes(k) : k \in 1..n }] :
                \A k \in 1..n : objs[k] \in ObjectShapes(k) }
            : n \in 0..Len(ObjectIds) }

Documents ==
    { Document(FALSE, << >>, FALSE, << >>) }
    \cup { Document(TRUE, objs, FALSE, << >>) : objs \in ObjectLists }
    \cup { Document(TRUE, objs, TRUE, its)
           : objs \in ObjectLists, its \in SeqsOf(RefIds, 0, MaxItems) }

\* An entry of objects_dict, a dict kept as the list of its items in insertion
\* order: {'type': 'component', 'ref': ...} or {'type': 'mesh', 'vertices':
\* ..., 'triangles': ...} under the key id.
Entry(id, type, ref, vertices, triangles) ==
    [ id |-> id, type |-> type, ref |-> ref, vertices |-> vertices,
      triangles |-> triangles ]

\* objects_dict[e.id] = e
DictPut(d, e) ==
    IF \E k \in 1..Len(d) : d[k].id = e.id
    THEN [ k \in 1..Len(d) |-> IF d[k].id = e.id THEN e ELSE d[k] ]
    ELSE Append(d, e)

\* objects_dict.get(id): << >> for None, else the entry in a list of one.
DictGet(d, id) == SelectSeq(d, LAMBDA e : e.id = id)

\* {'vertices': ..., 'triangles': ...}
MeshData(e) == [ vertices |-> e.vertices, triangles |-> e.triangles ]

\* Faulty variant, for comparison: vertices alone make a mesh object.
HasGeometry_vertices_only(vertices, triangles) == vertices > 0

\* line 241: if len(vertices) > 0 and len(triangles) > 0
HasGeometry(vertices, triangles) == vertices > 0 /\ Len(triangles) > 0

\* lines 198-246, the first pass: [dict, raised], raised when float() or
\* int() meets an attribute that is no number.
RECURSIVE CollectObjects(_, _)
CollectObjects(objects, d) ==
    IF objects = << >> THEN [ dict |-> d, raised |-> FALSE ]
    ELSE LET obj == Head(objects) IN
         IF obj.component
         THEN CollectObjects(Tail(objects),
                             DictPut(d, Entry(obj.id, "component", obj.ref, 0, << >>)))
         ELSE IF ~obj.mesh THEN CollectObjects(Tail(objects), d)
         ELSE IF ~obj.numeric THEN [ dict |-> d, raised |-> TRUE ]
         ELSE IF HasGeometry(obj.vertices, obj.triangles)
         THEN CollectObjects(Tail(objects),
                             DictPut(d, Entry(obj.id, "mesh", "", obj.vertices,
                                              obj.triangles)))
         ELSE CollectObjects(Tail(objects), d)

\* Follows the references from id for at most `hops` components.
RECURSIVE Follow(_, _, _)
Follow(objects_dict, id, hops) ==
    LET found == DictGet(objects_dict, id) IN
    IF found = << >> THEN << >>
    ELSE IF found[1].type = "mesh" THEN << MeshData(found[1]) >>
    ELSE IF hops = 0 THEN << >>
    ELSE Follow(objects_dict, found[1].ref, hops - 1)

\* Faulty variant, for comparison: a chain of components is followed to its end.
ResolveItem_chained(objects_dict, obj_id) == Follow(objects_dict, obj_id, Len(objects_dict))

\* lines 255-279, one build item: the mesh data it adds to meshes_data.
ResolveItem(objects_dict, obj_id) ==
    LET found == DictGet(objects_dict, obj_id)
        resolved_obj == IF found /= << >> /\ found[1].type = "component"
                        THEN DictGet(objects_dict, found[1].ref)
                        ELSE found
    IN  IF found = << >> THEN << >>
        ELSE IF resolved_obj = << >> THEN << >>
        ELSE IF resolved_obj[1].type = "mesh" THEN << MeshData(resolved_obj[1]) >>
        ELSE << >>

\* lines 252-279, the second pass over the items of the build section.
RECURSIVE ResolveItems(_, _)
ResolveItems(objects_dict, items) ==
    IF items = << >> THEN << >>
    ELSE ResolveItem(objects_dict, Head(items)) \o ResolveItems(objects_dict, Tail(items))

\* for obj_id, obj_data in objects_dict.items(): if obj_data.get('type') == 'mesh'
RECURSIVE AllMeshObjects(_)
AllMeshObjects(objects_dict) ==
    IF objects_dict = << >> THEN << >>
    ELSE (IF Head(objects_dict).type = "mesh" THEN << MeshData(Head(objects_dict)) >>
          ELSE << >>) \o AllMeshObjects(Tail(objects_dict))

\* lines 281-289: if len(meshes_data) == 0, every mesh object is used.
Fallback(objects_dict, meshes_data) ==
    IF Len(meshes_data) = 0 THEN AllMeshObjects(objects_dict) ELSE meshes_data

\* parse_3mf_model_xml as a whole: the list it returns; [] when anything in
\* it raised.
parse_3mf_model_xml(doc) ==
    LET first == CollectObjects(doc.objects, << >>)
        meshes_data == IF doc.build THEN ResolveItems(first.dict, doc.items) ELSE << >>
    IN  IF ~doc.wellformed \/ first.raised THEN << >>
        ELSE Fallback(first.dict, meshes_data)

\* The run of parse_3mf_model_xml on one document, step by step.
XmlRun(at, doc, objects_dict, meshes_data, item, returned) ==
    [ pc |-> at, doc |-> doc, objects_dict |-> objects_dict,
      meshes_data |-> meshes_data, item |-> item, returned |-> returned ]

\* No document is being parsed.
NoXmlRun == XmlRun("idle", Document(FALSE, << >>, FALSE, << >>), << >>, << >>, 0, << >>)

\* The run of parse_3mf_model_xml on doc once it has returned.
ParsedRun(doc) ==
    LET first == CollectObjects(doc.objects, << >>)
        meshes_data == IF doc.build THEN ResolveItems(first.dict, doc.items) ELSE << >>
    IN  IF ~doc.wellformed THEN XmlRun("returned", doc, << >>, << >>, 0, << >>)
        ELSE IF first.raised THEN XmlRun("returned", doc, << >>, << >>, 0, << >>)
        ELSE XmlRun("returned", doc, first.dict, meshes_data,
                    IF doc.build THEN Len(doc.items) ELSE 0,
                    parse_3mf_model_xml(doc))

(***************************************************************************)
(* Process state.                                                          *)
(***************************************************************************)
\* sys.argv = [freecadcmd, script, input, output, tolerance, repair, format]:
\* too short, the required arguments alone, or all of them.
Argv(argc, tolerance, repair, input_format) ==
    [ argc |-> argc, tolerance |-> tolerance, repair |-> repair,
      input_format |-> input_format ]

ArgvChoices ==
    { Argv(3, "", "", ""), Argv(4, "", "", "") }
    \cup { Argv(7, t, r, f) : t \in { "0.01", "abc" }, r \in { "repair", "no-repair" },
                              f \in Formats }

NoArgs == [ tolerance |-> 0, repair |-> FALSE, info_only |-> FALSE, input_format |-> "" ]

Init ==
    /\ pc = "import"
    /\ stdout = << >>
    /\ emitted = << >>
    /\ exit_code = 0 - 1
    /\ args = NoArgs
    /\ result = << >>
    /\ meshes = << >>
    /\ total_facets = 0
    /\ skip_expensive = FALSE
    /\ idx = 0
    /\ all_repairs = << >>
    /\ solids = << >>
    /\ shapes = << >>
    /\ final = << >>
    /\ output_file = 0 - 1
    /\ argv \in ArgvChoices
    /\ input_exists \in BOOLEAN
    /\ temp_dir = "none"
    /\ xml = NoXmlRun
    /\ calls = << >>
    /\ merges = << >>
    /\ faults = 0

\* sys.exit(code) / os._exit(code) after `out` was written.
Exit(out, docs, code) ==
    /\ pc' = "exited"
    /\ stdout' = out
    /\ emitted' = docs
    /\ exit_code' = code

\* An exception that nothing catches ends the interpreter: the traceback goes
\* to the redirected stderr, nothing more reaches the real standard output.
Uncaught(out) ==
    /\ pc' = "crashed"
    /\ stdout' = out
    /\ emitted' = emitted
    /\ exit_code' = 1

\* clean_exit(result): restore stdout, print the JSON document, hard exit.
clean_exit(out, res) ==
    Exit(Append(debug_print(out), "JSON"), Append(emitted, res), 0)

\* Lines 26-44: the FreeCAD modules are imported with the output redirected.
ImportFailure ==
    ("success" :> FALSE) @@ ("error" :> "FreeCAD import failed: e") @@ ("stage" :> "import")

ImportModules ==
    /\ pc = "import"
    /\ \E imported \in BOOLEAN :
          IF imported
          THEN /\ pc' = "main"
               /\ stdout' = debug_print(stdout)
               /\ UNCHANGED << emitted, exit_code >>
          ELSE Exit(Append(debug_print(stdout), "JSON"), Append(emitted, ImportFailure), 0)
    /\ UNCHANGED << args, result, meshes, total_facets, skip_expensive, idx,
                    all_repairs, solids, shapes, final, output_file, argv,
                    input_exists, temp_dir, xml, calls,
                    merges, faults >>

\* float(s) for the strings the model passes as the tolerance argument: the
\* value in hundredths, or ValueError.
ParseFloat(str) ==
    IF str = "0.01" THEN [ raised |-> FALSE, value |-> DefaultTolerance ]
    ELSE [ raised |-> TRUE, value |-> 0 ]

\* main(): parse sys.argv, then call convert().
Main ==
    /\ pc = "main"
    /\ LET out == debug_print(stdout)
           parsed == IF argv.argc > 4 THEN ParseFloat(argv.tolerance)
                     ELSE [ raised |-> FALSE, value |-> DefaultTolerance ]
           tolerance == parsed.value
           repair == IF argv.argc > 5 THEN argv.repair /= "no-repair" ELSE TRUE
           input_format == IF argv.argc > 6 THEN argv.input_format ELSE "stl"
       IN  IF argv.argc < 4
           THEN /\ Exit(Append(out, "USAGE"), emitted, 1)
                /\ args' = args
           ELSE IF parsed.raised
           THEN /\ Uncaught(out)
                /\ args' = args
           ELSE /\ pc' = "convert"
                /\ stdout' = debug_print(out)
                /\ args' = [ tolerance |-> tolerance, repair |-> repair,
                             info_only |-> FALSE, input_format |-> input_format ]
                /\ UNCHANGED << emitted, exit_code >>
    /\ UNCHANGED << result, meshes, total_facets, skip_expensive, idx,
                    all_repairs, solids, shapes, final, output_file, argv,
                    input_exists, temp_dir, xml, calls,
                    merges, faults >>

InitialResult ==
    ("success" :> FALSE) @@ ("input" :> "input_path") @@ ("output" :> "output_path")
    @@ ("input_format" :> args.input_format) @@ ("tolerance" :> args.tolerance)

\* d[key] = value
Put(d, key, value) == (key :> value) @@ d

\* Faulty variant, for comparison: the input path is not looked at.
InputFound_unchecked == TRUE

\* line 424: os.path.exists(input_path)
InputFound == input_exists

\* convert(), lines 407-427: the result dict and the input-path check.
ConvertEnter ==
    /\ pc = "convert"
    /\ LET out == debug_print(stdout) IN
          IF ~InputFound
          THEN /\ result' = Put(InitialResult, "error", "Input file not found")
               /\ clean_exit(debug_print(out), result')
          ELSE /\ result' = InitialResult
               /\ pc' = "load"
               /\ stdout' = out
               /\ UNCHANGED << emitted, exit_code >>
    /\ UNCHANGED << args, meshes, total_facets, skip_expensive, idx,
                    all_repairs, solids, shapes, final, output_file, argv,
                    input_exists, temp_dir, xml, calls,
                    merges, faults >>

(***************************************************************************)
(* The loaders.  A load ends in [meshes, out, calls, exc, temp_dir, xml].  *)
(***************************************************************************)
Loaded(ms, out, cs, op, exc) ==
    [ meshes |-> ms, out |-> out,
      calls |-> Append(cs, Call("convert", op, NoMesh, exc, "none")),
      exc |-> exc, temp_dir |-> "none", xml |-> NoXmlRun ]

\* load_stl_file: Mesh.Mesh().read(input_path) yields whatever the file holds,
\* an empty mesh included, or raises.
load_stl_file(out, cs) ==
    { Loaded(<< m >>, debug_print(out), cs, "load_stl_file", FALSE) : m \in MeshSamples }
    \cup { Loaded(<< >>, debug_print(out), cs, "load_stl_file", TRUE) }

\* vertices[idx] raises IndexError: Python counts a negative index from the end.
IndexError(vertices, index) == index >= vertices \/ index < 0 - vertices

\* The mesh the kernel builds from the facets of one mesh record.
XmlMesh(vertices, triangles) ==
    Mesh(vertices, Len(triangles), 0, 0, "none", "none", 0, TRUE)

\* create_mesh_from_data, lines 311-320: [mesh, raised].
create_mesh_from_data(vertices, triangles) ==
    IF \E t \in 1..Len(triangles) : \E n \in 1..3 : IndexError(vertices, triangles[t][n])
    THEN [ mesh |-> EmptyMesh, raised |-> TRUE ]
    ELSE [ mesh |-> XmlMesh(vertices, triangles), raised |-> FALSE ]

\* lines 381-387: the meshes of the records, [meshes, raised].
RECURSIVE CreateMeshes(_)
CreateMeshes(meshes_data) ==
    IF meshes_data = << >> THEN [ meshes |-> << >>, raised |-> FALSE ]
    ELSE LET made == create_mesh_from_data(Head(meshes_data).vertices,
                                           Head(meshes_data).triangles)
             rest == CreateMeshes(Tail(meshes_data))
         IN  IF made.raised \/ rest.raised THEN [ meshes |-> << >>, raised |-> TRUE ]
             ELSE [ meshes |-> << made.mesh >> \o rest.meshes, raised |-> FALSE ]

\* What a 3MF archive holds: embedded STL payloads (one mesh each, empty ones
\* included), and 3D/3dmodel.model or not.
Archive(stl_files, model_file, doc) ==
    [ stl_files |-> stl_files, model_file |-> model_file, doc |-> doc ]

\* Model files of the jobs: one mesh placed once; one mesh placed twice through
\* a component; no XML; a build item behind two components; a triangle index
\* beyond the vertices; a negative triangle index within the vertex count
\* from the end; a negative one beyond it.
DocumentSamples ==
    { Document(TRUE, << MeshObject(1) >>, TRUE, << "1" >>),
      Document(TRUE, << MeshObject(1), Object("2", TRUE, "1", FALSE, TRUE, 0, << >>) >>,
               TRUE, << "2", "2" >>),
      Document(FALSE, << >>, FALSE, << >>),
      Document(TRUE, << Object("1", TRUE, "2", FALSE, TRUE, 0, << >>),
                        Object("2", TRUE, "3", FALSE, TRUE, 0, << >>),
                        MeshObject(3) >>,
               TRUE, << "1" >>),
      Document(TRUE, << Object("1", FALSE, "", TRUE, TRUE, 3, << << 0, 1, 7 >> >>) >>,
               TRUE, << "1" >>),
      Document(TRUE, << Object("1", FALSE, "", TRUE, TRUE, 3, << << 0, 1, 0 - 1 >> >>) >>,
               TRUE, << "1" >>),
      Document(TRUE, << Object("1", FALSE, "", TRUE, TRUE, 3, << << 0, 1, 0 - 4 >> >>) >>,
               TRUE, << "1" >>) }

Archives ==
    { Archive(stl_files, FALSE, NoXmlRun.doc) : stl_files \in SeqsOf(MeshSamples, 0, MaxMeshes) }
    \cup { Archive(<< >>, TRUE, doc) : doc \in DocumentSamples }

\* lines 397-403, finally: shutil.rmtree(temp_dir) returns, or it raises and
\* leaves the directory, and the exception is dropped.
Cleanup == { "removed", "exists" }

\* load_3mf_file on one archive, once the extraction directory exists.
load_archive(archive, out, cs) ==
    LET Leave(ms, exc) ==
            { [ Loaded(ms, debug_print(out), cs, "load_3mf_file", exc)
                  EXCEPT !.temp_dir = dir ] : dir \in Cleanup }
        Parsed(ms, exc) ==
            { [ l EXCEPT !.xml = ParsedRun(archive.doc) ] : l \in Leave(ms, exc) }
        meshes_data == parse_3mf_model_xml(archive.doc)
        created == CreateMeshes(meshes_data)
        FromStl == Leave(archive.stl_files, FALSE) \cup Leave(<< >>, TRUE)
        FromXml ==
            IF ~archive.model_file THEN Leave(<< >>, TRUE)
            ELSE IF Len(meshes_data) = 0 THEN Parsed(<< >>, TRUE)
            ELSE IF created.raised THEN Parsed(<< >>, TRUE)
            ELSE Parsed(created.meshes, FALSE) \cup Parsed(<< >>, TRUE)
    IN  Leave(<< >>, TRUE)
        \cup (IF Len(archive.stl_files) > 0 THEN FromStl ELSE FromXml)

\* load_3mf_file: tempfile.mkdtemp raises, or the archive is extracted and
\* loaded and the directory removed.
load_3mf_file(out, cs) ==
    { Loaded(<< >>, debug_print(out), cs, "load_3mf_file", TRUE) }
    \cup UNION { load_archive(archive, out, cs) : archive \in Archives }

Upper(input_format) == IF input_format = "3mf" THEN "3MF" ELSE "STL"

LoadError(input_format) ==
    IF Upper(input_format) = "3MF" THEN "Failed to load 3MF file: e"
    ELSE "Failed to load STL file: e"

NoFacetsError(input_format) ==
    IF Upper(input_format) = "3MF" THEN "3MF contains no facets"
    ELSE "STL contains no facets"

NoFacets(ms) == Len(ms) = 0 \/ (Len(ms) = 1 /\ ms[1].facets = 0)

SkipExpensive(total) == total > ExpensiveCheckFacetThreshold

\* convert(), lines 429-454: load, validate, size the job.
LoadMeshes ==
    /\ pc = "load"
    /\ \E l \in (IF args.input_format = "3mf" THEN load_3mf_file(stdout, calls)
                  ELSE load_stl_file(stdout, calls)) :
          /\ calls' = l.calls
          /\ temp_dir' = l.temp_dir
          /\ xml' = l.xml
          /\ IF l.exc
             THEN /\ result' = Put(result, "error", LoadError(args.input_format))
                  /\ clean_exit(debug_print(l.out), result')
                  /\ UNCHANGED << meshes, total_facets, skip_expensive >>
             ELSE IF NoFacets(l.meshes)
             THEN /\ result' = Put(result, "error", NoFacetsError(args.input_format))
                  /\ clean_exit(debug_print(l.out), result')
                  /\ meshes' = l.meshes
                  /\ UNCHANGED << total_facets, skip_expensive >>
             ELSE /\ meshes' = l.meshes
                  /\ total_facets' = SumFacets(l.meshes)
                  /\ skip_expensive' = SkipExpensive(total_facets')
                  /\ pc' = "process"
                  /\ stdout' = debug_print(l.out)
                  /\ UNCHANGED << result, emitted, exit_code >>
    /\ UNCHANGED << args, idx, all_repairs, solids, shapes, final, output_file, argv,
                    input_exists, merges, faults >>

(***************************************************************************)
(* convert(), lines 456-467: one iteration of the processing loop.         *)
(***************************************************************************)
InfoBeforeKey(i) ==
    << "mesh_info_before_0", "mesh_info_before_1", "mesh_info_before_2",
       "mesh_info_before_3", "mesh_info_before_4" >>[i + 1]

InfoAfterKey(i) ==
    << "mesh_info_after_0", "mesh_info_after_1", "mesh_info_after_2",
       "mesh_info_after_3", "mesh_info_after_4" >>[i + 1]

\* [f"Mesh {i+1}: {r}" for r in repairs]
Prefixed(i, repairs) ==
    [ k \in 1..Len(repairs) |-> [ mesh |-> i + 1, entry |-> repairs[k] ] ]

\* Faulty variant, for comparison: the expensive checks are skipped by the mesh's own size.
SkipFor_own_size(mesh, job_skip) == mesh.facets > ExpensiveCheckFacetThreshold

\* lines 459-465: every mesh is diagnosed and repaired with the job's
\* skip_expensive.
SkipFor(mesh, job_skip) == job_skip

\* The loop body on mesh i: a set of [c, res, log] where c is the context it
\* ends in, res the result dict and log the aggregated repair log.
process_mesh(c0, res, log, job_skip, repair) ==
    LET skip == SkipFor(c0.mesh, job_skip)
        Out(c, r, l) == [ c |-> c, res |-> r, log |-> l ]
        Repaired(b) ==
            UNION { IF r.exc THEN { Out(r, Put(res, InfoBeforeKey(c0.i), b.info), log) }
                    ELSE { Out(a,
                               IF a.exc THEN Put(res, InfoBeforeKey(c0.i), b.info)
                               ELSE Put(Put(res, InfoBeforeKey(c0.i), b.info),
                                        InfoAfterKey(c0.i), a.info),
                               log \o Prefixed(c0.i, r.repairs))
                           : a \in get_mesh_info(r, skip) }
                    : r \in repair_mesh(Dbg(b), skip) }
    IN  UNION { IF b.exc THEN { Out(b, res, log) }
                ELSE IF repair THEN Repaired(b)
                ELSE { Out(b, Put(res, InfoBeforeKey(c0.i), b.info), log) }
                : b \in get_mesh_info(Dbg(c0), skip) }

ProcessMesh ==
    /\ pc = "process"
    /\ idx < Len(meshes)
    /\ \E o \in process_mesh(Ctx(meshes[idx + 1], idx, << >>, calls, merges, stdout, faults),
                              result, all_repairs, skip_expensive, args.repair) :
          /\ calls' = o.c.calls
          /\ faults' = o.c.faults
          /\ result' = o.res
          /\ all_repairs' = o.log
          /\ meshes' = [ meshes EXCEPT ![idx + 1] = o.c.mesh ]
          /\ IF o.c.exc
             THEN /\ Uncaught(o.c.out)
                  /\ idx' = idx
             ELSE /\ stdout' = o.c.out
                  /\ idx' = idx + 1
                  /\ UNCHANGED << pc, emitted, exit_code >>
    /\ UNCHANGED << args, total_facets, skip_expensive, solids, shapes, final,
                    output_file, argv,
                    input_exists, temp_dir, xml, merges >>

\* A call into FreeCAD that concerns no mesh: it returns or raises.
AppCall(c, op) == KernelCall([ c EXCEPT !.i = NoMesh ], "convert", op, c.mesh)

LegacyAliases(res) ==
    LET r1 == IF "mesh_info_before_0" \in DOMAIN res
              THEN Put(res, "mesh_info_before", res["mesh_info_before_0"]) ELSE res
    IN  IF "mesh_info_after_0" \in DOMAIN r1
        THEN Put(r1, "mesh_info_after", r1["mesh_info_after_0"]) ELSE r1

\* convert(), lines 469-487: close the report of the processing loop, open
\* the document.
FinishProcessing ==
    /\ pc = "process"
    /\ idx = Len(meshes)
    /\ LET res == LegacyAliases(Put(result, "repairs", all_repairs)) IN
       IF args.info_only
       THEN /\ result' = Put(res, "success", TRUE)
            /\ clean_exit(debug_print(stdout), result')
            /\ UNCHANGED << idx, solids, shapes, calls, faults >>
       ELSE \E d \in AppCall(Ctx(EmptyMesh, NoMesh, << >>, calls, merges, debug_print(stdout), faults),
                              "FreeCAD.newDocument") :
              /\ result' = res
              /\ calls' = d.calls
              /\ faults' = d.faults
              /\ IF d.exc
                 THEN /\ Uncaught(d.out)
                      /\ UNCHANGED << idx, solids, shapes >>
                 ELSE /\ pc' = "reconstruct"
                      /\ idx' = 0
                      /\ solids' = << >>
                      /\ shapes' = << >>
                      /\ stdout' = d.out
                      /\ UNCHANGED << emitted, exit_code >>
    /\ UNCHANGED << args, meshes, total_facets, skip_expensive, all_repairs, final,
                    output_file, argv,
                    input_exists, temp_dir, xml, merges >>

(***************************************************************************)
(* convert(), lines 489-520: one iteration of the reconstruction loop.     *)
(* A set of [c, solid]: c.shape is the object kept, solid tells the list.  *)
(***************************************************************************)
\* Faulty variant, for comparison: the bound is exclusive.
PerSolidMergeAllowed_exclusive(mesh) == mesh.facets < MergeFacetLimit

\* line 507: if mesh.CountFacets <= 100000
PerSolidMergeAllowed(mesh) == mesh.facets <= MergeFacetLimit

\* Faulty variant, for comparison: the classification failure is passed on.
KeepAsShell_passed_on(s) == Dbg(s)

\* lines 518-520: except Exception: the unclassified shape is kept as a shell.
KeepAsShell(s) == [ Dbg(s) EXCEPT !.exc = FALSE ]

reconstruct_mesh(c0, tolerance) ==
    LET shape_tolerance == tolerance * ShapeToleranceFactor
        merge_tolerance == tolerance * MergeToleranceFactor
        Out(c, solid) == [ c |-> c, solid |-> solid ]
        Solid(c) ==
            IF PerSolidMergeAllowed(c.mesh)
            THEN { Out(Dbg(IF m.ok THEN Dbg(m) ELSE m), TRUE)
                   : m \in Merge(Dbg(c), merge_tolerance) }
            ELSE { Out(Dbg(c), TRUE) }
        Classify(c) ==
            UNION { IF s.exc
                    THEN { Out(KeepAsShell(s), FALSE) }
                    ELSE Solid(s)
                    : s \in ShapeCall(Dbg(c), "convert", "Part.makeSolid", MakeSolid(c.shape)) }
    IN  UNION { IF m.exc THEN { Out(m, FALSE) } ELSE Classify(m)
                : m \in ShapeCall(Dbg(c0), "convert", "makeShapeFromMesh",
                                  MeshShape(c0.i, shape_tolerance)) }

ReconstructMesh ==
    /\ pc = "reconstruct"
    /\ idx < Len(meshes)
    /\ \E o \in reconstruct_mesh(Ctx(meshes[idx + 1], idx, << >>, calls, merges, stdout, faults),
                                  args.tolerance) :
          /\ calls' = o.c.calls
          /\ merges' = o.c.merges
          /\ faults' = o.c.faults
          /\ IF o.c.exc
             THEN /\ Uncaught(o.c.out)
                  /\ UNCHANGED << idx, solids, shapes >>
             ELSE /\ stdout' = o.c.out
                  /\ idx' = idx + 1
                  /\ solids' = IF o.solid THEN Append(solids, o.c.shape) ELSE solids
                  /\ shapes' = IF o.solid THEN shapes ELSE Append(shapes, o.c.shape)
                  /\ UNCHANGED << pc, emitted, exit_code >>
    /\ UNCHANGED << args, result, meshes, total_facets, skip_expensive, all_repairs,
                    final, output_file, argv,
                    input_exists, temp_dir, xml >>

(***************************************************************************)
(* convert(), lines 522-551: the final object.                             *)
(* A set of [c, is_solid]: c.shape is `final`.                             *)
(***************************************************************************)
\* Faulty variant, for comparison: the shells are left out of a mixed compound.
AllObjects_without_shells(sols, shps) == sols

\* line 546: all_objects = solids + shapes
AllObjects(sols, shps) == sols \o shps

assemble(c0, sols, shps) ==
    LET Out(c, is_solid) == [ c |-> c, is_solid |-> is_solid ]
        One(object) == { [ Dbg(c0) EXCEPT !.shape = object ] }
        Compound(objects) == ShapeCall(Dbg(c0), "convert", "Part.makeCompound", MakeCompound(objects))
        all_objects == AllObjects(sols, shps)
    IN  IF Len(sols) > 0 /\ Len(shps) = 0
        THEN { Out(c, TRUE)
               : c \in IF Len(sols) = 1 THEN One(sols[1])
                        ELSE { Dbg(d) : d \in Compound(sols) } }
        ELSE IF Len(shps) > 0 /\ Len(sols) = 0
        THEN { Out(c, FALSE)
               : c \in IF Len(shps) = 1 THEN One(shps[1]) ELSE Compound(shps) }
        ELSE { Out(c, FALSE)
               : c \in IF Len(all_objects) = 1
                        THEN { [ c0 EXCEPT !.shape = all_objects[1] ] }
                        ELSE Compound(all_objects) }

Assemble ==
    /\ pc = "reconstruct"
    /\ idx = Len(meshes)
    /\ \E o \in assemble(Ctx(EmptyMesh, NoMesh, << >>, calls, merges, stdout, faults),
                          solids, shapes) :
          /\ calls' = o.c.calls
          /\ faults' = o.c.faults
          /\ result' = Put(result, "is_solid", o.is_solid)
          /\ IF o.c.exc
             THEN /\ Uncaught(o.c.out)
                  /\ final' = final
             ELSE /\ pc' = "merge"
                  /\ stdout' = o.c.out
                  /\ final' = o.c.shape
                  /\ UNCHANGED << emitted, exit_code >>
    /\ UNCHANGED << args, meshes, total_facets, skip_expensive, idx, all_repairs,
                    solids, shapes, output_file, argv,
                    input_exists, temp_dir, xml, merges >>

(***************************************************************************)
(* convert(), lines 553-567: the compound-level merge.                     *)
(* A set of [c, res]: c.shape is `final`, res the result dict.             *)
(***************************************************************************)
\* Faulty variant, for comparison: the number of meshes is not looked at.
CompoundMergeAllowed_any_count(processed, total) == total <= MergeFacetLimit

\* line 555: if len(processed_meshes) == 1 and total_facets <= 100000
CompoundMergeAllowed(processed, total) == processed = 1 /\ total <= MergeFacetLimit

compound_merge(c0, res, processed, total, tolerance) ==
    LET merge_tolerance == tolerance * MergeToleranceFactor
        Out(c, r) == [ c |-> c, res |-> r ]
    IN  IF CompoundMergeAllowed(processed, total)
        THEN { Out(m, Put(res, "merged_planar_faces", m.ok))
               : m \in Merge(Dbg(c0), merge_tolerance) }
        ELSE IF processed > 1
        THEN { Out(Dbg(c0), Put(Put(res, "merged_planar_faces", TRUE),
                                "merged_per_solid", TRUE)) }
        ELSE { Out(Dbg(c0), Put(Put(res, "merged_planar_faces", FALSE),
                                "skipped_merge_reason", "Mesh too large (n facets)")) }

CompoundMerge ==
    /\ pc = "merge"
    /\ \E o \in compound_merge(Ctx(EmptyMesh, NoMesh, final, calls, merges, stdout, faults),
                                result, Len(meshes), total_facets, args.tolerance) :
          /\ calls' = o.c.calls
          /\ merges' = o.c.merges
          /\ faults' = o.c.faults
          /\ result' = o.res
          /\ final' = o.c.shape
          /\ stdout' = o.c.out
          /\ pc' = "export"
    /\ UNCHANGED << emitted, exit_code, args, meshes, total_facets, skip_expensive,
                    idx, all_repairs, solids, shapes, output_file, argv,
                    input_exists, temp_dir, xml >>

(***************************************************************************)
(* convert(), lines 569-597: export and report.                            *)
(***************************************************************************)
\* What Import.export can leave at output_path: nothing, an empty file, a file.
ExportedSizes == { 0 - 1, 0, 2048 }

\* try: FreeCAD.closeDocument(doc.Name)  except: pass
close_document(c) == Try(AppCall(c, "FreeCAD.closeDocument"), Pass, Pass)

\* A set of [c, res, size, exits]: `exits` tells that clean_exit(res) was reached.
export(c0, res) ==
    LET Out(c, r, size, exits) == [ c |-> c, res |-> r, size |-> size, exits |-> exits ]
        Report(c, size) ==
            IF size = 0 - 1
            THEN { Out(Dbg(c), Put(res, "error", "STEP export failed"), size, TRUE) }
            ELSE { Out(Dbg(d), Put(Put(res, "success", TRUE), "output_size", size),
                       size, TRUE)
                   : d \in close_document(Dbg(c)) }
        Written(c) == UNION { Report(Dbg(c), size) : size \in ExportedSizes }
        Exported(c) ==
            UNION { IF e.exc THEN { Out(e, res, 0 - 1, FALSE) } ELSE Written(e)
                    : e \in AppCall(Dbg(c), "Import.export") }
    IN  UNION { IF a.exc THEN { Out(a, res, 0 - 1, FALSE) } ELSE Exported(a)
                : a \in AppCall(Dbg(c0), "doc.addObject") }

Export ==
    /\ pc = "export"
    /\ \E o \in export(Ctx(EmptyMesh, NoMesh, final, calls, merges, stdout, faults), result) :
          /\ calls' = o.c.calls
          /\ faults' = o.c.faults
          /\ result' = o.res
          /\ output_file' = o.size
          /\ IF o.exits THEN clean_exit(o.c.out, o.res) ELSE Uncaught(o.c.out)
    /\ UNCHANGED << args, meshes, total_facets, skip_expensive, idx, all_repairs,
                    solids, shapes, final, argv,
                    input_exists, temp_dir, xml, merges >>

Next ==
    \/ ImportModules
    \/ Main
    \/ ConvertEnter
    \/ LoadMeshes
    \/ ProcessMesh
    \/ FinishProcessing
    \/ ReconstructMesh
    \/ Assemble
    \/ CompoundMerge
    \/ Export

Spec == Init /\ [][Next]_vars

(***************************************************************************)
(* parse_3mf_model_xml on its own: one run per document within the bounds, *)
(* taken step by step inside load_3mf_file (the directory exists, the      *)
(* process waits for the list).                                            *)
(***************************************************************************)
ParseInit ==
    /\ xml \in { XmlRun("parse", doc, << >>, << >>, 0, << >>) : doc \in Documents }
    /\ pc = "load"
    /\ stdout = << "DEBUG" >>
    /\ emitted = << >>
    /\ exit_code = 0 - 1
    /\ args = [ tolerance |-> DefaultTolerance, repair |-> TRUE, info_only |-> FALSE,
                input_format |-> "3mf" ]
    /\ result = << >>
    /\ meshes = << >>
    /\ total_facets = 0
    /\ skip_expensive = FALSE
    /\ idx = 0
    /\ all_repairs = << >>
    /\ solids = << >>
    /\ shapes = << >>
    /\ final = << >>
    /\ output_file = 0 - 1
    /\ argv = Argv(7, "0.01", "repair", "3mf")
    /\ input_exists = TRUE
    /\ temp_dir = "exists"
    /\ calls = << >>
    /\ merges = << >>
    /\ faults = 0

\* What a step of the parser leaves alone; its debug lines go to stdout.
ParserStep ==
    /\ stdout' = debug_print(stdout)
    /\ UNCHANGED << pc, emitted, exit_code, args, result, meshes, total_facets,
                    skip_expensive, idx, all_repairs, solids, shapes, final,
                    output_file, argv, input_exists, temp_dir, calls, merges, faults >>

\* except Exception: return []
ReturnNothing == [ xml EXCEPT !.pc = "returned", !.returned = << >> ]

\* lines 189-190: ET.parse(model_path) raises on a file that is no XML.
ParseTree ==
    /\ xml.pc = "parse"
    /\ xml' = IF xml.doc.wellformed THEN [ xml EXCEPT !.pc = "objects" ] ELSE ReturnNothing
    /\ ParserStep

\* lines 195-246: the first pass.
FirstPass ==
    /\ xml.pc = "objects"
    /\ LET first == CollectObjects(xml.doc.objects, << >>) IN
       xml' = IF first.raised THEN ReturnNothing
              ELSE [ xml EXCEPT !.pc = "build", !.objects_dict = first.dict ]
    /\ ParserStep

\* lines 254-279: one item of the build section.
ResolveBuildItem ==
    /\ xml.pc = "build"
    /\ xml.doc.build
    /\ xml.item < Len(xml.doc.items)
    /\ xml' = [ xml EXCEPT !.item = @ + 1,
                           !.meshes_data = @ \o ResolveItem(xml.objects_dict,
                                                            xml.doc.items[xml.item + 1]) ]
    /\ ParserStep

\* lines 281-292: the fallback and the return.
ReturnMeshes ==
    /\ xml.pc = "build"
    /\ ~xml.doc.build \/ xml.item = Len(xml.doc.items)
    /\ xml' = [ xml EXCEPT !.pc = "returned",
                           !.returned = Fallback(xml.objects_dict, xml.meshes_data) ]
    /\ ParserStep

ParseNext ==
    \/ ParseTree
    \/ FirstPass
    \/ ResolveBuildItem
    \/ ReturnMeshes

ParseSpec == ParseInit /\ [][ParseNext]_vars

(***************************************************************************)
(* Vocabulary of the properties.                                           *)
(***************************************************************************)
Terminated == pc \in { "exited", "crashed" }

ConvertEntered == DOMAIN result /= { }

Stages == { "import", "validation", "load", "read", "conversion", "export" }

MeshIndices == 0 .. Len(meshes) - 1

CallMade(by, op, on, raised) ==
    \E k \in 1..Len(calls) :
        /\ calls[k].by = by
        /\ calls[k].op = op
        /\ calls[k].on = on
        /\ calls[k].raised = raised

\* Part.makeSolid returned for mesh i.
ClassifiedSolid(i) == CallMade("convert", "Part.makeSolid", i, FALSE)

\* Part.makeSolid raised for mesh i.
ClassificationFailed(i) == CallMade("convert", "Part.makeSolid", i, TRUE)

\* merge_planar_faces was invoked on the solid of mesh i (NoMesh: on `final`).
MergeInvokedOn(i) == \E k \in 1..Len(merges) : merges[k].on = i

(***************************************************************************)
(* C1.  Once convert() is entered, every run ends with one result document *)
(* emitted that carries a boolean `success`, whichever collaborator calls  *)
(* raise; no exception leaves convert()/main() unreported.  In particular  *)
(* a raising mesh-to-shape conversion ends with success = false emitted.   *)
(***************************************************************************)
C1_EveryRunReports ==
    /\ (ConvertEntered /\ Terminated) =>
          /\ Len(emitted) = 1
          /\ "success" \in DOMAIN emitted[1]
          /\ emitted[1]["success"] \in BOOLEAN
    /\ (Terminated /\ \E i \in MeshIndices : CallMade("convert", "makeShapeFromMesh", i, TRUE)) =>
          /\ Len(emitted) = 1
          /\ emitted[1]["success"] = FALSE

(***************************************************************************)
(* C2.  On a run that has the required arguments, the real standard output *)
(* holds nothing until the result is emitted and exactly one JSON document *)
(* once the process has ended.                                             *)
(***************************************************************************)
C2_StdoutIsOneJsonDocument ==
    argv.argc >= 4 =>
        IF Terminated THEN stdout = << "JSON" >> ELSE stdout = << >>

(***************************************************************************)
(* C3.  Every result emitted with success = false carries a non-empty      *)
(* `error` and a `stage` among import, validation, load, read, conversion, *)
(* export.                                                                 *)
(***************************************************************************)
C3_FailureCarriesErrorAndStage ==
    \A k \in 1..Len(emitted) :
        emitted[k]["success"] = FALSE =>
            /\ "error" \in DOMAIN emitted[k]
            /\ emitted[k]["error"] /= ""
            /\ "stage" \in DOMAIN emitted[k]
            /\ emitted[k]["stage"] \in Stages

(***************************************************************************)
(* C4.  Every result emitted with success = true was emitted after the     *)
(* export call, with the output file existing and non-empty and with       *)
(* output_size present and > 0.                                            *)
(***************************************************************************)
C4_SuccessMeansNonEmptyOutput ==
    \A k \in 1..Len(emitted) :
        emitted[k]["success"] = TRUE =>
            /\ CallMade("convert", "Import.export", NoMesh, FALSE)
            /\ output_file > 0
            /\ "output_size" \in DOMAIN emitted[k]
            /\ emitted[k]["output_size"] > 0

(***************************************************************************)
(* C5.  skip_expensive is (sum of the facet counts of the loaded meshes    *)
(* > 50000), computed once and applied to every mesh alike: when it is     *)
(* true no diagnostics record holds has_non_manifolds or                   *)
(* has_self_intersections, and neither get_mesh_info nor repair_mesh calls *)
(* the two checks or their fixes, and no such repair is logged; when it is *)
(* false every diagnostics record holds both keys.                         *)
(***************************************************************************)
LargeJob == total_facets > ExpensiveCheckFacetThreshold

ExpensiveOps ==
    { "hasSelfIntersections", "hasNonManifolds", "fixSelfIntersections",
      "removeNonManifolds" }

DiagnosticsKeys ==
    { InfoBeforeKey(i) : i \in MeshIndices } \cup { InfoAfterKey(i) : i \in MeshIndices }
    \cup { "mesh_info_before", "mesh_info_after" }

C5_SkipExpensiveIsUniform ==
    /\ skip_expensive = LargeJob
    /\ (pc = "process" /\ idx = 0) => total_facets = SumFacets(meshes)
    /\ \A key \in DiagnosticsKeys \cap DOMAIN result :
          /\ ("has_non_manifolds" \in DOMAIN result[key]) = ~LargeJob
          /\ ("has_self_intersections" \in DOMAIN result[key]) = ~LargeJob
    /\ LargeJob =>
          /\ \A k \in 1..Len(calls) : calls[k].op \notin ExpensiveOps
          /\ \A k \in 1..Len(all_repairs) :
                all_repairs[k].entry.text \notin
                    { "Fixed self-intersections", "Removed non-manifolds" }

\* Two meshes, each below the threshold and holding both defects or one of
\* them, whose sum is above it: both were diagnosed and repaired.
C5_Witness ==
    /\ Len(meshes) = 2
    /\ LargeJob
    /\ \A i \in MeshIndices : meshes[i + 1].facets <= ExpensiveCheckFacetThreshold
    /\ \E i \in MeshIndices : meshes[i + 1].si /= "none" /\ meshes[i + 1].nm /= "none"
    /\ { "mesh_info_before_0", "mesh_info_after_0", "mesh_info_before_1",
         "mesh_info_after_1" } \subseteq DOMAIN result

(***************************************************************************)
(* C6.  Each repair step is fault-tolerant on its own: when a kernel call  *)
(* made by repair_mesh raises, the later steps still run (the last one,    *)
(* normal harmonization, returns for that mesh) and the failure does not   *)
(* reach convert().                                                        *)
(***************************************************************************)
C6_RepairStepsNeverEscalate ==
    \A k \in 1..Len(calls) :
        (calls[k].by = "repair_mesh" /\ calls[k].raised) =>
            \E j \in (k + 1)..Len(calls) :
                calls[j] = Call("repair_mesh", "harmonizeNormals", calls[k].on, FALSE, "none")

(***************************************************************************)
(* C7.  merge_planar_faces tries (1) refine then removeSplitter(tolerance),*)
(* (2) removeSplitter(tolerance) on the unrefined shape, (3)               *)
(* removeSplitter(), in this order, a tier only after every earlier one    *)
(* raised; it returns the first successful tier's result with True, and    *)
(* the shape it was given with False iff all three raise.                  *)
(***************************************************************************)
TierCall(op, raised) == [ op |-> op, raised |-> raised ]

\* The kernel calls of the k-th invocation, as (op, raised) pairs.
TierCalls(k) ==
    [ n \in 1..(merges[k].last - merges[k].first + 1) |->
        TierCall(calls[merges[k].first + n - 1].op,
                 calls[merges[k].first + n - 1].raised) ]

\* The two ways tier 1 fails.
Tier1Raised ==
    { << TierCall("shape.refine()", TRUE) >>,
      << TierCall("shape.refine()", FALSE),
         TierCall("refined.removeSplitter(tolerance)", TRUE) >> }

Tier2Raised == << TierCall("shape.removeSplitter(tolerance)", TRUE) >>

FirstTierSucceeded(k) ==
    /\ TierCalls(k) = << TierCall("shape.refine()", FALSE),
                         TierCall("refined.removeSplitter(tolerance)", FALSE) >>
    /\ merges[k].output = RemoveSplitterTol(Refine(merges[k].input), merges[k].tolerance)
    /\ merges[k].ok

SecondTierSucceeded(k) ==
    /\ \E t1 \in Tier1Raised :
          TierCalls(k) = t1 \o << TierCall("shape.removeSplitter(tolerance)", FALSE) >>
    /\ merges[k].output = RemoveSplitterTol(merges[k].input, merges[k].tolerance)
    /\ merges[k].ok

ThirdTierSucceeded(k) ==
    /\ \E t1 \in Tier1Raised :
          TierCalls(k) = t1 \o Tier2Raised \o << TierCall("shape.removeSplitter()", FALSE) >>
    /\ merges[k].output = RemoveSplitter(merges[k].input)
    /\ merges[k].ok

AllTiersRaised(k) ==
    \E t1 \in Tier1Raised :
        TierCalls(k) = t1 \o Tier2Raised \o << TierCall("shape.removeSplitter()", TRUE) >>

C7_MergeCascadeOrder ==
    \A k \in 1..Len(merges) :
        /\ \A n \in merges[k].first .. merges[k].last : calls[n].by = "merge_planar_faces"
        /\ \/ FirstTierSucceeded(k)
           \/ SecondTierSucceeded(k)
           \/ ThirdTierSucceeded(k)
           \/ AllTiersRaised(k) /\ merges[k].output = merges[k].input /\ ~merges[k].ok
        /\ ~merges[k].ok => AllTiersRaised(k) /\ merges[k].output = merges[k].input

\* Refinement returned, the merge of the refined shape raised, the direct
\* merge returned: the result is the direct merge of the shape given.
C7_Witness ==
    \E k \in 1..Len(merges) :
        /\ TierCalls(k) = << TierCall("shape.refine()", FALSE),
                             TierCall("refined.removeSplitter(tolerance)", TRUE),
                             TierCall("shape.removeSplitter(tolerance)", FALSE) >>
        /\ merges[k].output = RemoveSplitterTol(merges[k].input, merges[k].tolerance)
        /\ merges[k].ok

(***************************************************************************)
(* C8.  In the reconstruction loop the merge cascade is invoked for a mesh *)
(* iff that mesh was classified solid and its own facet count is at most   *)
(* 100000, whatever the other meshes of the job hold.                      *)
(***************************************************************************)
C8_PerSolidMergeIffSolidAndSmall ==
    \A i \in MeshIndices :
        MergeInvokedOn(i) <=>
            (ClassifiedSolid(i) /\ meshes[i + 1].facets <= MergeFacetLimit)

\* Two solids in one job, one above the bound and left unmerged, one at the
\* bound and merged.
C8_Witness ==
    /\ Len(meshes) = 2
    /\ \A i \in MeshIndices : ClassifiedSolid(i)
    /\ \E i, j \in MeshIndices :
          /\ meshes[i + 1].facets > MergeFacetLimit /\ ~MergeInvokedOn(i)
          /\ meshes[j + 1].facets = MergeFacetLimit /\ MergeInvokedOn(j)

(***************************************************************************)
(* C9.  The merge cascade is invoked on the final entity iff exactly one   *)
(* mesh was processed and its facet count, as loaded, is at most 100000.   *)
(* With several meshes it is not invoked and merged_per_solid = true is    *)
(* recorded; with one mesh above the bound it is not invoked and           *)
(* merged_planar_faces = false and skipped_merge_reason are recorded;      *)
(* skipped_merge_reason appears in no other case.                          *)
(***************************************************************************)
MergeStepDone == "merged_planar_faces" \in DOMAIN result

C9_CompoundMergeIffSingleAndSmall ==
    /\ MergeInvokedOn(NoMesh) => MergeStepDone
    /\ MergeStepDone =>
          /\ MergeInvokedOn(NoMesh) <=>
                (Len(meshes) = 1 /\ total_facets <= MergeFacetLimit)
          /\ Len(meshes) > 1 =>
                /\ "merged_per_solid" \in DOMAIN result
                /\ result["merged_per_solid"] = TRUE
          /\ (Len(meshes) = 1 /\ total_facets > MergeFacetLimit) =>
                /\ result["merged_planar_faces"] = FALSE
                /\ "skipped_merge_reason" \in DOMAIN result
    /\ "skipped_merge_reason" \in DOMAIN result =>
          (Len(meshes) = 1 /\ total_facets > MergeFacetLimit)
    /\ \A k \in 1..Len(emitted) :
          "skipped_merge_reason" \in DOMAIN emitted[k] =>
              (Len(meshes) = 1 /\ total_facets > MergeFacetLimit)

\* A job of two meshes, both small enough, reported: no merge of the final
\* entity, merged_per_solid recorded.
C9_Witness ==
    /\ pc = "exited"
    /\ Len(meshes) = 2
    /\ total_facets <= MergeFacetLimit
    /\ MergeStepDone
    /\ ~MergeInvokedOn(NoMesh)
    /\ "merged_per_solid" \in DOMAIN emitted[1]

(***************************************************************************)
(* C10.  The assembled entity and is_solid follow from the classification  *)
(* alone: is_solid iff every mesh was classified solid; a single object is *)
(* passed on unchanged, several objects become one compound of exactly     *)
(* those objects, the solids before the shells in the mixed case.          *)
(***************************************************************************)
\* The object mesh i contributed: its solid (merged or not) or its shell.
IsObjectOf(object, i) ==
    /\ Len(object) >= 2
    /\ SubSeq(object, 1, 2) = MeshShape(i, args.tolerance * ShapeToleranceFactor)
    /\ ClassifiedSolid(i) <=> (\E n \in 1..Len(object) : object[n].op = "makeSolid")

SolidIndices == { i \in MeshIndices : ClassifiedSolid(i) }

ShellIndices == { i \in MeshIndices : ClassificationFailed(i) }

C10_AssemblyFollowsClassification ==
    /\ "is_solid" \in DOMAIN result =>
          result["is_solid"] = (\A i \in MeshIndices : ClassifiedSolid(i))
    /\ pc = "merge" =>
          /\ Len(solids) = Cardinality(SolidIndices)
          /\ Len(shapes) = Cardinality(ShellIndices)
          /\ \A i \in MeshIndices :
                \/ \E n \in 1..Len(solids) : ClassifiedSolid(i) /\ IsObjectOf(solids[n], i)
                \/ \E n \in 1..Len(shapes) : ~ClassifiedSolid(i) /\ IsObjectOf(shapes[n], i)
          /\ final = IF Len(meshes) = 1 THEN (solids \o shapes)[1]
                     ELSE MakeCompound(solids \o shapes)

\* A mixed job assembled: one mesh classified solid, another kept as shell.
C10_Witness ==
    /\ pc = "merge"
    /\ SolidIndices /= { }
    /\ ShellIndices /= { }
    /\ result["is_solid"] = FALSE

(***************************************************************************)
(* C11.  A solid-classification failure for one mesh never aborts the job  *)
(* and leaves the other meshes alone: the unclassified shape of that mesh  *)
(* is kept as a shell, the loop goes on with the next mesh, and after the  *)
(* loop every mesh has contributed exactly one object, to the solids or to *)
(* the shells.                                                             *)
(***************************************************************************)
\* The reconstruction loop has dealt with mesh i.
Reconstructed(i) ==
    \/ pc = "reconstruct" /\ i < idx
    \/ pc \in { "merge", "export" }
    \/ Terminated /\ "is_solid" \in DOMAIN result

C11_ClassificationFailureKeepsShell ==
    /\ pc = "reconstruct" => Len(solids) + Len(shapes) = idx
    /\ (pc \in { "merge", "export" } \/ (Terminated /\ "is_solid" \in DOMAIN result)) =>
          Len(solids) + Len(shapes) = Len(meshes)
    /\ \A i \in MeshIndices :
          ClassificationFailed(i) =>
              /\ calls[Len(calls)].op = "Part.makeSolid" => pc /= "crashed"
              /\ idx > i
              /\ \E n \in 1..Len(shapes) :
                    shapes[n] = MeshShape(i, args.tolerance * ShapeToleranceFactor)
              /\ \A j \in MeshIndices \ { i } :
                    (Reconstructed(j) /\ ClassifiedSolid(j)) =>
                        \E n \in 1..Len(solids) : IsObjectOf(solids[n], j)

\* The first of two meshes failed classification, the second one was
\* classified solid afterwards, and the loop is over.
C11_Witness ==
    /\ pc = "merge"
    /\ Len(meshes) = 2
    /\ ClassificationFailed(0)
    /\ ClassifiedSolid(1)
    /\ Len(shapes) = 1
    /\ Len(solids) = 1

(***************************************************************************)
(* C12.  merged_planar_faces = true is reported only when at least one     *)
(* merge cascade of the job returned success: if every cascade invoked     *)
(* failed on all its tiers, or none was invoked, the emitted result has    *)
(* merged_planar_faces = false, for one mesh and for several.              *)
(***************************************************************************)
SomeMergeSucceeded == \E k \in 1..Len(merges) : merges[k].ok

C12_MergedFlagMeansAMergeSucceeded ==
    \A k \in 1..Len(emitted) :
        "merged_planar_faces" \in DOMAIN emitted[k] =>
            (emitted[k]["merged_planar_faces"] = TRUE => SomeMergeSucceeded)

(***************************************************************************)
(* Vocabulary of the repair log.                                           *)
(***************************************************************************)
\* The entries repair_mesh can log, in the order of its steps.
RepairOrder ==
    << "Removed duplicate points", "Removed duplicate facets",
       "Fixed self-intersections", "Fixed degenerations", "Removed non-manifolds",
       "Filled holes", "Harmonized normals" >>

Rank(text) == CHOOSE n \in 1..Len(RepairOrder) : RepairOrder[n] = text

\* The kernel calls whose return lets repair_mesh log `text`.
StepOps(text) ==
    CASE text = "Removed duplicate points" -> { "removeDuplicatedPoints" }
      [] text = "Removed duplicate facets" -> { "removeDuplicatedFacets" }
      [] text = "Fixed self-intersections" -> { "fixSelfIntersections" }
      [] text = "Fixed degenerations" -> { "fixDegenerations(0.0)", "fixDegenerations()" }
      [] text = "Removed non-manifolds" -> { "removeNonManifolds" }
      [] text = "Filled holes" -> { "fillupHoles(1000)", "fillupHoles()" }
      [] OTHER -> { "harmonizeNormals" }

\* The positions in the job's log of the entries `text` of mesh i.
EntriesOf(i, text) ==
    { k \in 1..Len(all_repairs) :
        all_repairs[k].mesh = i + 1 /\ all_repairs[k].entry.text = text }

LogOf(i) == { k \in 1..Len(all_repairs) : all_repairs[k].mesh = i + 1 }

\* repair_mesh returned for mesh i.
RepairReturned(i) == CallMade("repair_mesh", "harmonizeNormals", i, FALSE)

RepairCall(k) == calls[k].by = "repair_mesh"

(***************************************************************************)
(* C18.  The log of repair_mesh is a subsequence, without repetition, of   *)
(* the fixed order of its steps; whenever repair_mesh returns, the log is  *)
(* non-empty and ends with "Harmonized normals"; in the job's log every    *)
(* entry of mesh i carries the number i + 1 and the entries of mesh i come *)
(* before those of mesh i + 1.                                             *)
(***************************************************************************)
C18_RepairLogFollowsStepOrder ==
    /\ \A k \in 1..Len(all_repairs) :
          /\ \E n \in 1..Len(RepairOrder) : RepairOrder[n] = all_repairs[k].entry.text
          /\ \E op \in StepOps(all_repairs[k].entry.text) :
                CallMade("repair_mesh", op, all_repairs[k].mesh - 1, FALSE)
    /\ \A k, l \in 1..Len(all_repairs) :
          k < l =>
              \/ all_repairs[k].mesh < all_repairs[l].mesh
              \/ /\ all_repairs[k].mesh = all_repairs[l].mesh
                 /\ Rank(all_repairs[k].entry.text) < Rank(all_repairs[l].entry.text)
    /\ \A i \in MeshIndices :
          RepairReturned(i) =>
              /\ LogOf(i) /= { }
              /\ \A k \in LogOf(i) :
                    (\A l \in LogOf(i) : l <= k) =>
                        all_repairs[k].entry.text = "Harmonized normals"
    /\ \A k \in 1..Len(emitted) :
          "repairs" \in DOMAIN emitted[k] => emitted[k]["repairs"] = all_repairs

\* Two meshes repaired, the first with four entries logged, the second with
\* its own entries after them.
C18_Witness ==
    /\ Len(meshes) = 2
    /\ RepairReturned(0)
    /\ RepairReturned(1)
    /\ Cardinality(LogOf(0)) >= 4
    /\ Cardinality(LogOf(1)) >= 2
    /\ "repairs" \in DOMAIN result

(***************************************************************************)
(* C19.  With skip_expensive false, repair_mesh attempts the               *)
(* self-intersection fix and the non-manifold removal only right after the *)
(* corresponding check reported the defect, and it logs "Fixed             *)
(* self-intersections" / "Removed non-manifolds" only if the same check,   *)
(* made again right after the fix, reports the defect gone; a fix that     *)
(* leaves the defect adds no entry.                                        *)
(***************************************************************************)
\* The fix `fix` at position k of `calls` comes right after `check` reported
\* the defect on the same mesh.
FixFollowsDetection(k, fix, check) ==
    (RepairCall(k) /\ calls[k].op = fix) =>
        /\ k > 1
        /\ calls[k - 1] = Call("repair_mesh", check, calls[k].on, FALSE, "true")

\* `fix` returned at position k and `check`, made right after it, returned `ret`.
Rechecked(k, fix, check, ret) ==
    /\ k < Len(calls)
    /\ calls[k] = Call("repair_mesh", fix, calls[k].on, FALSE, "none")
    /\ calls[k + 1] = Call("repair_mesh", check, calls[k].on, FALSE, ret)

LoggedOnlyIfGone(fix, check, text) ==
    /\ \A n \in 1..Len(all_repairs) :
          all_repairs[n].entry.text = text =>
              \E k \in 1..Len(calls) :
                  /\ calls[k].on = all_repairs[n].mesh - 1
                  /\ Rechecked(k, fix, check, "false")
    /\ \A k \in 1..Len(calls) :
          Rechecked(k, fix, check, "true") => EntriesOf(calls[k].on, text) = { }

C19_FixLoggedOnlyWhenDefectGone ==
    /\ \A k \in 1..Len(calls) :
          /\ FixFollowsDetection(k, "fixSelfIntersections", "hasSelfIntersections")
          /\ FixFollowsDetection(k, "removeNonManifolds", "hasNonManifolds")
    /\ LoggedOnlyIfGone("fixSelfIntersections", "hasSelfIntersections",
                        "Fixed self-intersections")
    /\ LoggedOnlyIfGone("removeNonManifolds", "hasNonManifolds", "Removed non-manifolds")

\* One mesh whose self-intersections survive the fix (no entry) and whose
\* non-manifolds are removed (entry), repaired to the end.
C19_Witness ==
    /\ ~skip_expensive
    /\ RepairReturned(0)
    /\ \E k \in 1..Len(calls) :
          calls[k].on = 0 /\ Rechecked(k, "fixSelfIntersections", "hasSelfIntersections", "true")
    /\ EntriesOf(0, "Fixed self-intersections") = { }
    /\ \E k \in 1..Len(calls) :
          calls[k].on = 0 /\ Rechecked(k, "removeNonManifolds", "hasNonManifolds", "false")
    /\ EntriesOf(0, "Removed non-manifolds") /= { }

(***************************************************************************)
(* C20.  For the degeneration fix (zero tolerance, then default) and the   *)
(* hole filling (bounded, then unbounded): the first variant is tried      *)
(* first, the second one is invoked iff the first raised, the step's entry *)
(* is logged exactly once iff a variant returned, and when both raise      *)
(* there is no entry and the pipeline goes on with the next step.          *)
(***************************************************************************)
\* The first kernel call of the step that follows `second`.
NextStepOp(second) ==
    IF second = "fillupHoles()" THEN "harmonizeNormals"
    ELSE IF skip_expensive THEN "fillupHoles(1000)"
    ELSE "hasNonManifolds"

TwoVariantStep(first, second, text) ==
    /\ \A k \in 1..Len(calls) :
          /\ (RepairCall(k) /\ calls[k].op = second) =>
                /\ k > 1
                /\ calls[k - 1] = Call("repair_mesh", first, calls[k].on, TRUE, "none")
          /\ (RepairCall(k) /\ calls[k].op = first /\ calls[k].raised) =>
                /\ k < Len(calls)
                /\ calls[k + 1].op = second
                /\ calls[k + 1].on = calls[k].on
          /\ (RepairCall(k) /\ calls[k].op = first /\ ~calls[k].raised) =>
                (k < Len(calls) => calls[k + 1].op /= second)
          /\ (RepairCall(k) /\ calls[k].op = second /\ calls[k].raised) =>
                /\ k < Len(calls)
                /\ RepairCall(k + 1)
                /\ calls[k + 1].on = calls[k].on
                /\ calls[k + 1].op = NextStepOp(second)
    /\ \A i \in MeshIndices :
          RepairReturned(i) =>
              Cardinality(EntriesOf(i, text)) =
                  IF \/ CallMade("repair_mesh", first, i, FALSE)
                     \/ CallMade("repair_mesh", second, i, FALSE)
                  THEN 1 ELSE 0

C20_SecondVariantIffFirstRaised ==
    /\ TwoVariantStep("fixDegenerations(0.0)", "fixDegenerations()", "Fixed degenerations")
    /\ TwoVariantStep("fillupHoles(1000)", "fillupHoles()", "Filled holes")

\* One mesh repaired to the end: the first degeneration fix raised and the
\* second returned (one entry), both hole fillings raised (no entry).
C20_Witness ==
    /\ RepairReturned(0)
    /\ CallMade("repair_mesh", "fixDegenerations(0.0)", 0, TRUE)
    /\ CallMade("repair_mesh", "fixDegenerations()", 0, FALSE)
    /\ Cardinality(EntriesOf(0, "Fixed degenerations")) = 1
    /\ CallMade("repair_mesh", "fillupHoles(1000)", 0, TRUE)
    /\ CallMade("repair_mesh", "fillupHoles()", 0, TRUE)
    /\ EntriesOf(0, "Filled holes") = { }

(***************************************************************************)
(* C16.  Every exit of load_3mf_file taken after the extraction directory  *)
(* was created has removed it before convert() goes on: no state after the *)
(* load, and so no emitted result, finds the directory existing.           *)
(***************************************************************************)
C16_TempDirRemovedBeforeResult ==
    /\ pc \notin { "import", "main", "convert", "load" } => temp_dir /= "exists"
    /\ emitted /= << >> => temp_dir /= "exists"

(***************************************************************************)
(* C17.  When the input path does not exist, convert() emits success =     *)
(* false with the error "Input file not found" and none of the keys        *)
(* mesh_info_before, mesh_info_before_i, mesh_info_after, repairs,         *)
(* is_solid, output_size; no loader, diagnostic, repair, reconstruction or *)
(* export call is made before or after.                                    *)
(***************************************************************************)
\* convert() has been entered and has found no input file.
InputMissing == ~input_exists /\ ConvertEntered

C17_MissingInputReportsAndStops ==
    InputMissing =>
        /\ pc = "exited"
        /\ Len(emitted) = 1
        /\ emitted[1]["success"] = FALSE
        /\ emitted[1]["error"] = "Input file not found"
        /\ DOMAIN emitted[1] \cap
              ({ "mesh_info_before", "mesh_info_after", "repairs", "is_solid",
                 "output_size" } \cup { InfoBeforeKey(i) : i \in 0..MaxMeshes }
                                \cup { InfoAfterKey(i) : i \in 0..MaxMeshes }) = { }
        /\ calls = << >>
        /\ meshes = << >>
        /\ temp_dir = "none"
        /\ output_file = 0 - 1

\* A job with all its arguments whose input file is missing has ended.
C17_Witness ==
    /\ InputMissing
    /\ argv.argc = 7
    /\ Terminated

(***************************************************************************)
(* Vocabulary of the model document, read off the document itself.         *)
(***************************************************************************)
\* The object of the document with this id: << >> if none, else a list of one.
Referenced(id) == SelectSeq(xml.doc.objects, LAMBDA o : o.id = id)

\* An object classified as mesh: no component child, at least one vertex and
\* at least one triangle.
IsMeshObject(o) == ~o.component /\ o.mesh /\ o.vertices > 0 /\ Len(o.triangles) > 0

RefersToMesh(id) == Referenced(id) /= << >> /\ IsMeshObject(Referenced(id)[1])

RefersToComponent(id) == Referenced(id) /= << >> /\ Referenced(id)[1].component

Geometry(o) == [ vertices |-> o.vertices, triangles |-> o.triangles ]

\* What an item with this objectid is to contribute: the mesh it references,
\* directly or through one component, else nothing.
Contribution(id) ==
    IF RefersToMesh(id) THEN << Geometry(Referenced(id)[1]) >>
    ELSE IF RefersToComponent(id) /\ RefersToMesh(Referenced(id)[1].ref)
    THEN << Geometry(Referenced(Referenced(id)[1].ref)[1]) >>
    ELSE << >>

RECURSIVE Contributions(_)
Contributions(items) ==
    IF items = << >> THEN << >>
    ELSE Contribution(Head(items)) \o Contributions(Tail(items))

RECURSIVE MeshObjectsOf(_)
MeshObjectsOf(objects) ==
    IF objects = << >> THEN << >>
    ELSE (IF IsMeshObject(Head(objects)) THEN << Geometry(Head(objects)) >> ELSE << >>)
         \o MeshObjectsOf(Tail(objects))

\* The document is XML and every number the parser reads in it is one.
DocumentParses ==
    /\ xml.doc.wellformed
    /\ \A n \in 1..Len(xml.doc.objects) :
          (~xml.doc.objects[n].component /\ xml.doc.objects[n].mesh) =>
              xml.doc.objects[n].numeric

(***************************************************************************)
(* C13.  A build item is dereferenced through at most one component: an    *)
(* item referencing a mesh object, or a component whose target is a mesh   *)
(* object, contributes that mesh's vertices and triangles; an item         *)
(* referencing a component whose target is another component, or is        *)
(* missing, contributes nothing, and the chain is not followed further.    *)
(***************************************************************************)
C13_OneComponentLevel ==
    xml.pc = "build" =>
        xml.meshes_data = Contributions(SubSeq(xml.doc.items, 1, xml.item))

\* Two items resolved: the first one references a component whose target is
\* a component whose target is a mesh object, and has contributed nothing;
\* the second one references a component of a mesh object, and has
\* contributed that mesh.
C13_Witness ==
    /\ xml.pc = "build"
    /\ xml.item = 2
    /\ RefersToComponent(xml.doc.items[1])
    /\ RefersToComponent(Referenced(xml.doc.items[1])[1].ref)
    /\ RefersToMesh(Referenced(Referenced(xml.doc.items[1])[1].ref)[1].ref)
    /\ RefersToComponent(xml.doc.items[2])
    /\ RefersToMesh(Referenced(xml.doc.items[2])[1].ref)
    /\ xml.meshes_data = << Geometry(Referenced(Referenced(xml.doc.items[2])[1].ref)[1]) >>

(***************************************************************************)
(* C14.  With a build section, the list returned holds exactly one record  *)
(* per build item that resolves to a mesh object, in item order, repeated  *)
(* references repeated; mesh objects no item reaches are not returned, so  *)
(* the list is empty when no item resolves.                                *)
(***************************************************************************)
C14_OneRecordPerResolvedItem ==
    (xml.pc = "returned" /\ DocumentParses /\ xml.doc.build) =>
        xml.returned = Contributions(xml.doc.items)

(***************************************************************************)
(* C15.  Without a build section, the list returned holds one record for   *)
(* every object classified as mesh, in document order, and none for        *)
(* component objects or objects lacking vertices or triangles.             *)
(***************************************************************************)
C15_NoBuildReturnsEveryMeshObject ==
    (xml.pc = "returned" /\ DocumentParses /\ ~xml.doc.build) =>
        xml.returned = MeshObjectsOf(xml.doc.objects)

\* A document without build section holding a mesh object, an object without
\* triangles and a component: one record returned.
C15_Witness ==
    /\ xml.pc = "returned"
    /\ DocumentParses
    /\ ~xml.doc.build
    /\ Len(xml.doc.objects) = 3
    /\ \E n \in 1..3 : IsMeshObject(xml.doc.objects[n])
    /\ \E n \in 1..3 : xml.doc.objects[n].component
    /\ \E n \in 1..3 :
          /\ ~xml.doc.objects[n].component
          /\ xml.doc.objects[n].mesh
          /\ xml.doc.objects[n].vertices > 0
          /\ xml.doc.objects[n].triangles = << >>
    /\ Len(xml.returned) = 1

(***************************************************************************)
(* Vocabulary of the loaded model document.                                *)
(***************************************************************************)
\* The job has parsed a model document.
DocumentLoaded == xml.pc = "returned"

\* A triangle of the record names a vertex outside 0 .. len(vertices) - 1.
IndexOutOfRange(record) ==
    \E t \in 1..Len(record.triangles) : \E n \in 1..3 :
        record.triangles[t][n] < 0 \/ record.triangles[t][n] >= record.vertices

\* One of the records the parser returned to load_3mf_file has such a triangle.
MalformedIndices ==
    /\ DocumentLoaded
    /\ \E r \in 1..Len(xml.returned) : IndexOutOfRange(xml.returned[r])

\* The job ended as a load failure, no mesh kept and nothing called after the
\* loader.
LoadFailed ==
    /\ pc = "exited"
    /\ meshes = << >>
    /\ Len(emitted) = 1
    /\ emitted[1]["success"] = FALSE
    /\ "error" \in DOMAIN emitted[1]
    /\ emitted[1]["error"] = LoadError(args.input_format)
    /\ \A k \in 1..Len(calls) : calls[k].op = "load_3mf_file"

(***************************************************************************)
(* C21.  A 3MF mesh record with a triangle vertex index outside            *)
(* 0 .. (number of vertices - 1), negative indices included, never yields  *)
(* a mesh: create_mesh_from_data raises, the job ends as a load failure,   *)
(* and no facet built from a wrongly resolved vertex reaches diagnostics,  *)
(* repair or reconstruction.                                               *)
(***************************************************************************)
C21_MalformedIndicesFailTheLoad == MalformedIndices => LoadFailed

(***************************************************************************)
(* C22.  The size-driven merge decisions of one job are evaluated against  *)
(* the same facet count: in a single-mesh job whose mesh is classified     *)
(* solid, the merge cascade is attempted on the solid iff it is attempted  *)
(* on the final entity, whatever the repair steps (duplicate-facet         *)
(* removal, hole filling) did to the facet count between loading and       *)
(* reconstruction.                                                         *)
(***************************************************************************)
\* A job of one mesh, classified solid, has passed the merge of the final
\* entity.
SingleSolidMerged ==
    /\ MergeStepDone
    /\ Len(meshes) = 1
    /\ ClassifiedSolid(0)

C22_MergeDecisionsAgree ==
    SingleSolidMerged => (MergeInvokedOn(0) <=> MergeInvokedOn(NoMesh))

(***************************************************************************)
(* C23.  A job whose loaded meshes hold zero facets in total (no mesh, one *)
(* empty mesh or several empty meshes) never reaches diagnostics, repair,  *)
(* reconstruction or export: it ends with success = false and the error    *)
(* "<FORMAT> contains no facets".  Equivalently, whenever convert()        *)
(* proceeds past its facet validation, total_facets > 0.                   *)
(***************************************************************************)
\* convert() is past line 443: it is in one of the later stages, or a call
\* other than the loader's has been made.
PastValidation ==
    \/ pc \in { "process", "reconstruct", "merge", "export" }
    \/ \E k \in 1..Len(calls) : calls[k].op \notin { "load_stl_file", "load_3mf_file" }

C23_ZeroFacetsNeverProcessed == PastValidation => total_facets > 0

====
